---- MODULE Spec2Model ----
(***************************************************************************)
(* Model of tuuna/filter_compare, package bloom_filter: the packed bit set *)
(* (bitset.go) and the three bloom filter backends (bloom_filter.go):      *)
(* MemoryBloomFilter, FileBloomFilter and RedisBloomFilter.                *)
(*                                                                         *)
(* A 64-bit word is modelled as the set of its set bit positions (0..63),  *)
(* so |= is union, ^= is symmetric difference.  A key is modelled by the   *)
(* values HashData gives it under the seeds 0..MaxK-1; the model ranges    *)
(* over every such tuple, hence over every behaviour of the hash.          *)
(***************************************************************************)
EXTENDS Integers, Sequences, FiniteSets, TLC

\* ------------------------------------------------------------ bounds
MaxN == 2
MaxK == 2
MaxHash == 1
\* longest list the server is let to hold (LPUSH after a failed DEL grows it)
MaxList == 4

\* bitset.go: index/64, index%64
WordBits == 64

NVals == (0..MaxN) \cup {WordBits}
KVals == 0..MaxK
Seeds == 0..(MaxK - 1)
Keys == [Seeds -> 0..MaxHash]

\* ------------------------------------------------------------ HashData
\* HashData(data, seed): murmur3-64 (seeded) of the SHA-256 digest of data.
\* The key is the tuple of these values, one per seed.
HashData(data, seed) == data[seed]

\* ------------------------------------------------------------ BitSets
NewBitSets(n) == [w \in 1..((n \div WordBits) + 1) |-> {}]

\* Set/Unset/IsSet index the slice with index/64: that faults when the word
\* is not in the slice.
WordInRange(bs, index) == (index \div WordBits) + 1 \in 1..Len(bs)

\* (mutant of Set: ^= in place of |=)
SetToggles(bs, index) ==
    LET bit == index % WordBits
    IN [bs EXCEPT ![(index \div WordBits) + 1] =
            IF bit \in @ THEN @ \ {bit} ELSE @ \cup {bit}]

\* (mutant of Set: = in place of |=)
SetAssign(bs, index) ==
    [bs EXCEPT ![(index \div WordBits) + 1] = {index % WordBits}]

Set(bs, index) ==
    [bs EXCEPT ![(index \div WordBits) + 1] = @ \cup {index % WordBits}]

Unset(bs, index) ==
    LET bit == index % WordBits
    IN [bs EXCEPT ![(index \div WordBits) + 1] =
            IF bit \in @ THEN @ \ {bit} ELSE @ \cup {bit}]

IsSet(bs, index) ==
    LET word == bs[(index \div WordBits) + 1]
    IN (word \cup {index % WordBits}) = word

\* ------------------------------------------------------------ MemoryBloomFilter
NewMemoryBloomFilter(n, k) == [kind |-> "memory", k |-> k, bs |-> NewBitSets(n)]

\* l := uint(len(filter.bs)); Put: HashData(data, i) % l
MemPutIndex(bs, data, i) == HashData(data, i) % Len(bs)

\* Has: HashData(data, i) % l
MemHasIndex(bs, data, i) == HashData(data, i) % Len(bs)

\* HashData(data, i) % l with l = 0 is an integer division by zero; it is
\* evaluated only when the loop body runs (k > 0).
MemPanics(f) == f.k > 0 /\ Len(f.bs) = 0

RECURSIVE MemPutFrom(_, _, _, _)
MemPutFrom(bs, k, data, i) ==
    IF i >= k THEN bs
    ELSE MemPutFrom(Set(bs, MemPutIndex(bs, data, i)), k, data, i + 1)

MemoryPut(f, data) == [f EXCEPT !.bs = MemPutFrom(f.bs, f.k, data, 0)]

\* (mutant of MemHasFrom: no early return, the last test decides)
MemHasFromLast(bs, k, data, i) ==
    IF k = 0 THEN TRUE ELSE IsSet(bs, MemHasIndex(bs, data, k - 1))

RECURSIVE MemHasFrom(_, _, _, _)
MemHasFrom(bs, k, data, i) ==
    IF i >= k THEN TRUE
    ELSE IF ~IsSet(bs, MemHasIndex(bs, data, i)) THEN FALSE
    ELSE MemHasFrom(bs, k, data, i + 1)

MemoryHas(f, data) == MemHasFrom(f.bs, f.k, data, 0)

\* The indexes the loop of Has passes to IsSet, in order, from round i on.
RECURSIVE MemHasReads(_, _, _, _)
MemHasReads(bs, k, data, i) ==
    IF i >= k THEN <<>>
    ELSE IF ~IsSet(bs, MemHasIndex(bs, data, i)) THEN <<MemHasIndex(bs, data, i)>>
    ELSE <<MemHasIndex(bs, data, i)>> \o MemHasReads(bs, k, data, i + 1)

\* filter.bs = nil
MemoryClose(f) == [f EXCEPT !.bs = <<>>]

\* ------------------------------------------------------------ FileBloomFilter
\* encoding/gob sends a signed integer i inside an unsigned u: bit 0 says
\* whether to complement, bits 1.. hold i (or ^i).  On bit sets: i < 0 iff
\* bit 63 is set.
AllBits == 0..(WordBits - 1)

GobEncodeInt(w) ==
    IF (WordBits - 1) \in w
    THEN {b + 1 : b \in AllBits \ w} \cup {0}
    ELSE {b + 1 : b \in w}

\* (mutant of GobDecodeInt: the flag bit is not shifted out)
GobDecodeIntNoShift(u) ==
    IF 0 \in u THEN AllBits \ u ELSE u

GobDecodeInt(u) ==
    IF 0 \in u
    THEN AllBits \ {b - 1 : b \in u \ {0}}
    ELSE {b - 1 : b \in u}

\* A top-level slice is sent as its length followed by its elements (a nil
\* slice as length 0).
GobEncode(bs) ==
    [count |-> Len(bs), elems |-> [i \in 1..Len(bs) |-> GobEncodeInt(bs[i])]]

GobDecodable(m) == Len(m.elems) = m.count

\* Decode(&filter.bs): the slice takes the length and the elements sent.
GobDecode(m) == [i \in 1..m.count |-> GobDecodeInt(m.elems[i])]

\* compress/gzip, a black box: a header, the payload, a trailer written by
\* gzipWriter.Close().
Gzip(m) == [magic |-> TRUE, payload |-> m, trailer |-> TRUE]

GzipReadable(c) == c.magic

NoContent == [magic |-> FALSE, payload |-> GobEncode(<<>>), trailer |-> FALSE]

NoFile == [exists |-> FALSE, content |-> NoContent]

\* store(): os.Create, gob-encode filter.bs through a gzip writer, close both.
StoreFile(f) == [exists |-> TRUE, content |-> Gzip(GobEncode(f.bs))]

\* reStore() ends in log.Fatalf when the file exists and cannot be read.
ReStoreFatal(d) ==
    /\ d.exists
    /\ \/ ~GzipReadable(d.content)
       \/ ~d.content.trailer
       \/ ~GobDecodable(d.content.payload)

\* reStore(): a missing file leaves the fresh bit set; otherwise the decoded
\* slice replaces it.
ReStore(f, d) ==
    IF ~d.exists THEN f
    ELSE [f EXCEPT !.bs = GobDecode(d.content.payload)]

\* FileBloomFilter embeds the memory filter: Put and Has are its methods.
NewFileBloomFilter(d, n, k) ==
    ReStore([kind |-> "file", k |-> k, bs |-> NewBitSets(n)], d)

\* ------------------------------------------------------------ Redis commands
\* The list commands the filter issues, with the replies of a Redis server.
\* store maps each existing key to its list (element 1 is index 0).
UnsetVal == ""
SetVal == "1"

DigitChar == <<"0", "1", "2", "3", "4", "5", "6", "7", "8", "9">>

RECURSIVE Digits(_)
Digits(n) ==
    IF n < 10 THEN <<DigitChar[n + 1]>>
    ELSE Digits(n \div 10) \o <<DigitChar[(n % 10) + 1]>>

\* (mutant of redisKey: k left out)
redisKeyNoK(n, k) == <<"_bloomfilter:n">> \o Digits(n)

\* fmt.Sprintf("_bloomfilter:n%d:k%d", filter.n, filter.k)
redisKey(n, k) == <<"_bloomfilter:n">> \o Digits(n) \o <<":k">> \o Digits(k)

LLEN(s, key) == IF key \in DOMAIN s THEN Len(s[key]) ELSE 0

\* (mutant of DEL: the list is left in place)
DELNothing(s, key) == s

DEL(s, key) == [j \in DOMAIN s \ {key} |-> s[j]]

RECURSIVE Reverse(_)
Reverse(q) == IF q = <<>> THEN <<>> ELSE Reverse(Tail(q)) \o <<Head(q)>>

\* LPUSH key v1 .. vn pushes each value at the head in turn; with no value
\* the server replies an error and nothing changes.
LPUSH(s, key, vals) ==
    IF vals = <<>> THEN s
    ELSE LET old == IF key \in DOMAIN s THEN s[key] ELSE <<>>
         IN [j \in DOMAIN s \cup {key} |->
                IF j = key THEN Reverse(vals) \o old ELSE s[j]]

\* LSET replies an error for a missing key or an index out of range.
LSetOk(s, key, index) == key \in DOMAIN s /\ index + 1 \in 1..Len(s[key])

\* (mutant of LSET: an element already holding a value is emptied)
LSETFlip(s, key, index, v) ==
    [s EXCEPT ![key] = [@ EXCEPT ![index + 1] = IF @ = UnsetVal THEN v ELSE UnsetVal]]

LSET(s, key, index, v) == [s EXCEPT ![key] = [@ EXCEPT ![index + 1] = v]]

\* LINDEX replies nil for a missing key or an index out of range, and
\* redis.String turns nil into an error.
LIndexOk(s, key, index) == key \in DOMAIN s /\ index + 1 \in 1..Len(s[key])

LINDEX(s, key, index) == s[key][index + 1]

\* ------------------------------------------------------------ RedisBloomFilter
\* NewRedisBloomFilter; failed is the set of commands whose transport fails.
\* The error of LLEN is dropped (length is then 0), the replies of DEL and
\* LPUSH are not looked at.
\* (mutant of NewRedisStore: no DEL before the LPUSH)
NewRedisStoreNoDel(s, n, k, failed) ==
    LET key == redisKey(n, k)
        length == IF "LLEN" \in failed THEN 0 ELSE LLEN(s, key)
    IN IF length # n
       THEN IF "LPUSH" \in failed THEN s
            ELSE LPUSH(s, key, [i \in 1..n |-> UnsetVal])
       ELSE s

\* (mutant of NewRedisStore: the list is recreated whatever its length)
NewRedisStoreAlways(s, n, k, failed) ==
    LET key == redisKey(n, k)
        s1 == IF "DEL" \in failed THEN s ELSE DEL(s, key)
    IN IF "LPUSH" \in failed THEN s1
       ELSE LPUSH(s1, key, [i \in 1..n |-> UnsetVal])

NewRedisStore(s, n, k, failed) ==
    LET key == redisKey(n, k)
        length == IF "LLEN" \in failed THEN 0 ELSE LLEN(s, key)
    IN IF length # n
       THEN LET s1 == IF "DEL" \in failed THEN s ELSE DEL(s, key)
            IN IF "LPUSH" \in failed THEN s1
               ELSE LPUSH(s1, key, [i \in 1..n |-> UnsetVal])
       ELSE s

NewRedisBloomFilter(n, k) == [kind |-> "redis", cli |-> TRUE, n |-> n, k |-> k]

\* A nil cli, or HashData(data, i) % filter.n with n = 0, is a run-time panic
\* in the first round of the loop.
RedisPanics(f) == f.k > 0 /\ (~f.cli \/ f.n = 0)

\* Put: HashData(data, i)%filter.n
RedisPutIndex(f, data, i) == HashData(data, i) % f.n

\* (mutant of RedisHasIndex: reduced modulo k)
RedisHasIndexModK(f, data, i) == HashData(data, i) % f.k

\* Has: index := HashData(data, i) % filter.n
RedisHasIndex(f, data, i) == HashData(data, i) % f.n

\* Put from round i on: [store, ok]; failAt is the round whose command the
\* transport fails (none when outside 0..k-1).  An error ends in log.Fatalf.
RECURSIVE RedisPutFrom(_, _, _, _, _)
RedisPutFrom(s, f, data, i, failAt) ==
    IF i >= f.k THEN [store |-> s, ok |-> TRUE]
    ELSE IF i = failAt \/ ~LSetOk(s, redisKey(f.n, f.k), RedisPutIndex(f, data, i))
    THEN [store |-> s, ok |-> FALSE]
    ELSE RedisPutFrom(LSET(s, redisKey(f.n, f.k), RedisPutIndex(f, data, i), SetVal),
                      f, data, i + 1, failAt)

\* Has from round i on: "true", "false" or "fatal".
RECURSIVE RedisHasFrom(_, _, _, _, _)
RedisHasFrom(s, f, data, i, failAt) ==
    IF i >= f.k THEN "true"
    ELSE IF i = failAt \/ ~LIndexOk(s, redisKey(f.n, f.k), RedisHasIndex(f, data, i))
    THEN "fatal"
    ELSE IF LINDEX(s, redisKey(f.n, f.k), RedisHasIndex(f, data, i)) # SetVal
    THEN "false"
    ELSE RedisHasFrom(s, f, data, i + 1, failAt)

\* The indexes the loop of Has sends in LINDEX commands, in order, from round
\* i on (every command served).
RECURSIVE RedisHasReads(_, _, _, _)
RedisHasReads(s, f, data, i) ==
    IF i >= f.k THEN <<>>
    ELSE IF ~LIndexOk(s, redisKey(f.n, f.k), RedisHasIndex(f, data, i))
    THEN <<RedisHasIndex(f, data, i)>>
    ELSE IF LINDEX(s, redisKey(f.n, f.k), RedisHasIndex(f, data, i)) # SetVal
    THEN <<RedisHasIndex(f, data, i)>>
    ELSE <<RedisHasIndex(f, data, i)>> \o RedisHasReads(s, f, data, i + 1)

\* filter.cli = nil
RedisClose(f) == [f EXCEPT !.cli = FALSE]

\* ------------------------------------------------------------ state
VARIABLES
    kind,      \* the backend the caller uses: "memory", "file" or "redis"
    args,      \* the (n, k) the caller passes to the constructors
    filter,    \* the caller's BloomFilter value
    disk,      \* the file at the target path
    store,     \* the Redis server: key -> list
    status,    \* the calling process: "ok", "panic" (run-time panic) or "fatal" (log.Fatalf)
    ret,       \* what the last Has returned: "none", "true" or "false"
    x,         \* the key the properties follow
    xPut,      \* Put(x) has returned on this filter, or on the one its file was stored from
    savedPut,  \* xPut of the filter whose Close wrote the file
    trio,      \* one filter of each backend, driven in lockstep
    rf,        \* the RedisBloomFilter of each process sharing the store
    rargs,     \* the (n, k) each process passes to NewRedisBloomFilter
    rstatus,   \* each process: "ok", "panic" or "fatal"
    pc,        \* each process's position inside a Put or Has
    last,      \* the last call made on a shared filter
    xIn        \* <<Redis key, process>>: a Put(x) of the process on that list has returned

vars == <<kind, args, filter, disk, store, status, ret, x, xPut, savedPut,
          trio, rf, rargs, rstatus, pc, last, xIn>>

\* the state of the single caller, of the lockstep trio, of the processes
localVars == <<kind, filter, ret, xPut, savedPut>>
sharedVars == <<rf, rargs, rstatus, pc, last, xIn>>

Procs == {1, 2}
NoTrio == [m |-> [kind |-> "none"], f |-> [kind |-> "none"], r |-> [kind |-> "none"],
           answers |-> [key |-> [s \in Seeds |-> 0],
                        m |-> "none", f |-> "none", r |-> "none"]]
ZeroKey == [s \in Seeds |-> 0]
NoCall == [proc |-> 0, op |-> "none", length |-> -1, ans |-> "none",
           failed |-> FALSE, afterPut |-> FALSE]
Idle == [op |-> "idle", data |-> ZeroKey, i |-> 0, afterPut |-> FALSE]

NoFilter == [kind |-> "none"]
EmptyStore == [j \in {} |-> <<>>]
Kinds == {"memory", "file", "redis"}

\* nothing shared or in lockstep is in use
SharedUnused ==
    /\ trio = NoTrio
    /\ rf = [p \in Procs |-> NoFilter]
    /\ rargs = [p \in Procs |-> [n |-> 0, k |-> 0]]
    /\ rstatus = [p \in Procs |-> "ok"]
    /\ pc = [p \in Procs |-> Idle]
    /\ last = NoCall
    /\ xIn = {}

Init ==
    /\ kind \in Kinds
    /\ args \in [n : NVals, k : KVals]
    /\ x \in Keys
    /\ filter = NoFilter
    /\ disk = NoFile
    /\ store = EmptyStore
    /\ status = "ok"
    /\ ret = "none"
    /\ xPut = FALSE
    /\ savedPut = FALSE
    /\ SharedUnused

\* var filter BloomFilter = NewMemoryBloomFilter(n, k)
NewMemory ==
    /\ status = "ok" /\ kind = "memory"
    /\ filter' = NewMemoryBloomFilter(args.n, args.k)
    /\ xPut' = FALSE
    /\ ret' = "none"
    /\ UNCHANGED <<kind, args, disk, store, status, x, savedPut, trio, sharedVars>>

\* var filter BloomFilter = NewFileBloomFilter(target, n, k)
NewFile ==
    /\ status = "ok" /\ kind = "file"
    /\ IF ReStoreFatal(disk)
       THEN status' = "fatal" /\ UNCHANGED <<filter, xPut>>
       ELSE /\ filter' = NewFileBloomFilter(disk, args.n, args.k)
            /\ xPut' = (disk.exists /\ savedPut)
            /\ UNCHANGED status
    /\ ret' = "none"
    /\ UNCHANGED <<kind, args, disk, store, x, savedPut, trio, sharedVars>>

\* var filter BloomFilter = NewRedisBloomFilter(cli, n, k), every command served
NewRedis ==
    /\ status = "ok" /\ kind = "redis"
    /\ store' = NewRedisStore(store, args.n, args.k, {})
    /\ filter' = NewRedisBloomFilter(args.n, args.k)
    /\ xPut' = FALSE
    /\ ret' = "none"
    /\ UNCHANGED <<kind, args, disk, status, x, savedPut, trio, sharedVars>>

\* filter.Put(data)
Put(data) ==
    /\ status = "ok" /\ filter # NoFilter
    /\ IF filter.kind = "redis"
       THEN IF RedisPanics(filter)
            THEN status' = "panic" /\ UNCHANGED <<filter, store, xPut>>
            ELSE LET r == RedisPutFrom(store, filter, data, 0, -1)
                 IN /\ store' = r.store
                    /\ status' = IF r.ok THEN "ok" ELSE "fatal"
                    /\ xPut' = (xPut \/ (r.ok /\ data = x))
                    /\ UNCHANGED filter
       ELSE IF MemPanics(filter)
            THEN status' = "panic" /\ UNCHANGED <<filter, store, xPut>>
            ELSE /\ filter' = MemoryPut(filter, data)
                 /\ xPut' = (xPut \/ data = x)
                 /\ UNCHANGED <<store, status>>
    /\ ret' = "none"
    /\ UNCHANGED <<kind, args, disk, x, savedPut, trio, sharedVars>>

\* What filter.Has(data) does on filter f over store s: "true", "false",
\* "panic" or "fatal".
HasOutcome(f, s, data) ==
    IF f.kind = "redis"
    THEN IF RedisPanics(f) THEN "panic" ELSE RedisHasFrom(s, f, data, 0, -1)
    ELSE IF MemPanics(f) THEN "panic"
    ELSE IF MemoryHas(f, data) THEN "true" ELSE "false"

\* What filter.Put(data) leaves on filter f over store s (it returns nothing).
PutOutcome(f, s, data) ==
    IF f.kind = "redis"
    THEN LET r == RedisPutFrom(s, f, data, 0, -1)
         IN [filter |-> f, store |-> r.store, ok |-> r.ok]
    ELSE [filter |-> MemoryPut(f, data), store |-> s, ok |-> TRUE]

\* The positions filter.Has(data) tests on filter f over store s, in order.
HasReads(f, s, data) ==
    IF f.kind = "redis" THEN RedisHasReads(s, f, data, 0)
    ELSE MemHasReads(f.bs, f.k, data, 0)

\* filter.Has(data)
Has(data) ==
    /\ status = "ok" /\ filter # NoFilter
    /\ LET r == HasOutcome(filter, store, data)
       IN IF r \in {"panic", "fatal"}
          THEN status' = r /\ UNCHANGED ret
          ELSE ret' = r /\ UNCHANGED status
    /\ UNCHANGED <<kind, args, filter, disk, store, x, xPut, savedPut, trio, sharedVars>>

\* filter.Close()
Close ==
    /\ status = "ok" /\ filter # NoFilter
    /\ CASE filter.kind = "memory" ->
              /\ filter' = MemoryClose(filter)
              /\ UNCHANGED <<disk, savedPut>>
         [] filter.kind = "file" ->
              /\ disk' = StoreFile(filter)
              /\ filter' = MemoryClose(filter)
              /\ savedPut' = xPut
         [] filter.kind = "redis" ->
              /\ filter' = RedisClose(filter)
              /\ UNCHANGED <<disk, savedPut>>
    /\ xPut' = FALSE
    /\ ret' = "none"
    /\ UNCHANGED <<kind, args, store, status, x, trio, sharedVars>>

Next ==
    \/ NewMemory
    \/ NewFile
    \/ NewRedis
    \/ \E data \in Keys : Put(data)
    \/ \E data \in Keys : Has(data)
    \/ Close

Spec == Init /\ [][Next]_vars

\* ------------------------------------------------------------ lockstep
\* The same (n, k) and the same Puts applied to a fresh memory filter, a
\* fresh file filter and a freshly initialised Redis filter.
InitEquiv ==
    /\ args \in [n : NVals, k : KVals]
    /\ trio = NoTrio
    /\ disk = NoFile
    /\ store = EmptyStore
    /\ status = "ok"
    /\ kind = "all" /\ filter = NoFilter /\ ret = "none"
    /\ x = ZeroKey /\ xPut = FALSE /\ savedPut = FALSE
    /\ rf = [p \in Procs |-> NoFilter]
    /\ rargs = [p \in Procs |-> [n |-> 0, k |-> 0]]
    /\ rstatus = [p \in Procs |-> "ok"]
    /\ pc = [p \in Procs |-> Idle]
    /\ last = NoCall
    /\ xIn = {}

NewAll ==
    /\ status = "ok" /\ trio = NoTrio
    /\ store' = NewRedisStore(store, args.n, args.k, {})
    /\ trio' = [trio EXCEPT !.m = NewMemoryBloomFilter(args.n, args.k),
                            !.f = NewFileBloomFilter(disk, args.n, args.k),
                            !.r = NewRedisBloomFilter(args.n, args.k)]
    /\ UNCHANGED <<args, disk, status, x, localVars, sharedVars>>

PutAll(data) ==
    /\ status = "ok" /\ trio # NoTrio
    /\ IF MemPanics(trio.m) \/ MemPanics(trio.f) \/ RedisPanics(trio.r)
       THEN status' = "panic" /\ UNCHANGED <<trio, store>>
       ELSE LET r == RedisPutFrom(store, trio.r, data, 0, -1)
            IN /\ trio' = [trio EXCEPT !.m = MemoryPut(trio.m, data),
                                       !.f = MemoryPut(trio.f, data)]
               /\ store' = r.store
               /\ status' = IF r.ok THEN "ok" ELSE "fatal"
    /\ UNCHANGED <<args, disk, x, localVars, sharedVars>>

HasAll(data) ==
    /\ status = "ok" /\ trio # NoTrio
    /\ trio' = [trio EXCEPT !.answers =
                    [key |-> data,
                     m |-> HasOutcome(trio.m, store, data),
                     f |-> HasOutcome(trio.f, store, data),
                     r |-> HasOutcome(trio.r, store, data)]]
    /\ UNCHANGED <<args, disk, store, status, x, localVars, sharedVars>>

NextEquiv ==
    \/ NewAll
    \/ \E data \in Keys : PutAll(data)
    \/ \E data \in Keys : HasAll(data)

SpecEquiv == InitEquiv /\ [][NextEquiv]_vars

\* ------------------------------------------------------------ shared store
\* Processes holding Redis filters over one server, their calls one after
\* the other.  A list left under the key by earlier use: of length 2n (two
\* interleaved DEL/LPUSH pairs), its first n elements set.
Ones(len) == [i \in 1..len |-> SetVal]
Unsets(len) == [i \in 1..len |-> UnsetVal]

StaleStores(a) ==
    {[j \in {redisKey(a.n, a.k)} |-> Ones(a.n) \o Unsets(a.n)]}

LocalUnused ==
    /\ kind = "redis" /\ args = [n |-> 0, k |-> 0] /\ filter = NoFilter
    /\ disk = NoFile /\ status = "ok" /\ ret = "none"
    /\ xPut = FALSE /\ savedPut = FALSE /\ trio = NoTrio

InitRedis ==
    /\ x \in Keys
    /\ rargs \in [Procs -> [n : 1..MaxN, k : 1..MaxK]]
    /\ store \in {EmptyStore} \cup StaleStores(rargs[1])
    /\ rf = [p \in Procs |-> NoFilter]
    /\ rstatus = [p \in Procs |-> "ok"]
    /\ pc = [p \in Procs |-> Idle]
    /\ last = NoCall
    /\ xIn = {}
    /\ LocalUnused

Commands == {"LLEN", "DEL", "LPUSH"}

\* process p: NewRedisBloomFilter(cli, n, k); the transport fails the
\* commands in failed
RNew(p, failed) ==
    /\ rstatus[p] = "ok"
    /\ LET a == rargs[p]
           length == IF "LLEN" \in failed THEN 0
                     ELSE LLEN(store, redisKey(a.n, a.k))
       IN /\ store' = NewRedisStore(store, a.n, a.k, failed)
          /\ LLEN(store', redisKey(a.n, a.k)) <= MaxList
          /\ rf' = [rf EXCEPT ![p] = NewRedisBloomFilter(a.n, a.k)]
          /\ last' = [proc |-> p, op |-> "new", length |-> length, ans |-> "none",
                      failed |-> ("LLEN" \in failed
                                  \/ (length # a.n /\ failed \cap {"DEL", "LPUSH"} # {}))]
    /\ UNCHANGED <<args, disk, status, x, localVars, trio, rargs, rstatus, pc, xIn>>

\* process p: filter.Put(data); the transport fails the command of round failAt
RPut(p, data, failAt) ==
    /\ rstatus[p] = "ok" /\ rf[p] # NoFilter
    /\ IF RedisPanics(rf[p])
       THEN /\ rstatus' = [rstatus EXCEPT ![p] = "panic"]
            /\ last' = [NoCall EXCEPT !.proc = p, !.op = "put"]
            /\ UNCHANGED <<store, xIn>>
       ELSE LET r == RedisPutFrom(store, rf[p], data, 0, failAt)
            IN /\ store' = r.store
               /\ rstatus' = [rstatus EXCEPT ![p] = IF r.ok THEN "ok" ELSE "fatal"]
               /\ xIn' = IF r.ok /\ data = x
                         THEN xIn \cup {<<redisKey(rf[p].n, rf[p].k), p>>} ELSE xIn
               /\ last' = [NoCall EXCEPT !.proc = p, !.op = "put", !.failed = ~r.ok]
    /\ UNCHANGED <<args, disk, status, x, localVars, trio, rf, rargs, pc>>

\* process p: filter.Has(data)
RHas(p, data, failAt) ==
    /\ rstatus[p] = "ok" /\ rf[p] # NoFilter
    /\ LET r == IF RedisPanics(rf[p]) THEN "panic"
                ELSE RedisHasFrom(store, rf[p], data, 0, failAt)
       IN /\ rstatus' = [rstatus EXCEPT ![p] = IF r \in {"panic", "fatal"} THEN r ELSE "ok"]
          /\ last' = [NoCall EXCEPT !.proc = p, !.op = "has",
                                    !.ans = IF r \in {"true", "false"} THEN r ELSE "none",
                                    !.failed = (r = "fatal")]
    /\ UNCHANGED <<args, disk, store, status, x, localVars, trio, rf, rargs, pc, xIn>>

\* process p: filter.Close()
RClose(p) ==
    /\ rstatus[p] = "ok" /\ rf[p] # NoFilter
    /\ rf' = [rf EXCEPT ![p] = RedisClose(rf[p])]
    /\ last' = [NoCall EXCEPT !.proc = p, !.op = "close"]
    /\ UNCHANGED <<args, disk, store, status, x, localVars, trio, rargs, rstatus, pc, xIn>>

\* the keys the processes use: the followed key and one other
ProbeKeys == {x, ZeroKey}

\* every command is served
NextRedis ==
    \E p \in Procs :
        \/ RNew(p, {})
        \/ \E data \in ProbeKeys : RPut(p, data, -1)
        \/ \E data \in ProbeKeys : RHas(p, data, -1)
        \/ RClose(p)

SpecRedis == InitRedis /\ [][NextRedis]_vars

\* The transport may fail any command.
NextFail ==
    \E p \in Procs :
        \/ \E failed \in SUBSET Commands : RNew(p, failed)
        \/ \E data \in ProbeKeys, failAt \in -1..(MaxK - 1) : RPut(p, data, failAt)
        \/ \E data \in ProbeKeys, failAt \in -1..(MaxK - 1) : RHas(p, data, failAt)
        \/ RClose(p)

\* two processes with the same (n, k), no list on the server yet
InitFail ==
    /\ x \in Keys
    /\ \E a \in [n : 1..MaxN, k : 1..MaxK] : rargs = [p \in Procs |-> a]
    /\ store = EmptyStore
    /\ rf = [p \in Procs |-> NoFilter]
    /\ rstatus = [p \in Procs |-> "ok"]
    /\ pc = [p \in Procs |-> Idle]
    /\ last = NoCall
    /\ xIn = {}
    /\ LocalUnused

SpecFail == InitFail /\ [][NextFail]_vars

\* ------------------------------------------------------------ concurrent Put and Has
\* Two processes whose filters, with the same (n, k), were constructed one
\* after the other on an empty server; their Puts and Has interleave command
\* by command.
InitConc ==
    /\ x \in Keys
    /\ \E a \in [n : 1..MaxN, k : 1..MaxK] :
          /\ rargs = [p \in Procs |-> a]
          /\ store = NewRedisStore(NewRedisStore(EmptyStore, a.n, a.k, {}), a.n, a.k, {})
          /\ rf = [p \in Procs |-> NewRedisBloomFilter(a.n, a.k)]
    /\ rstatus = [p \in Procs |-> "ok"]
    /\ pc = [p \in Procs |-> Idle]
    /\ last = NoCall
    /\ xIn = {}
    /\ LocalUnused

\* process p calls filter.Put(data)
CPutCall(p, data) ==
    /\ rstatus[p] = "ok" /\ pc[p].op = "idle" /\ ~RedisPanics(rf[p]) /\ rf[p].k > 0
    /\ pc' = [pc EXCEPT ![p] = [op |-> "put", data |-> data, i |-> 0, afterPut |-> FALSE]]
    /\ UNCHANGED <<args, disk, store, status, x, localVars, trio, rf, rargs, rstatus, last, xIn>>

\* process p: one round of the loop of Put, one LSET
CPutStep(p) ==
    /\ rstatus[p] = "ok" /\ pc[p].op = "put"
    /\ LET f == rf[p]
           key == redisKey(f.n, f.k)
           index == RedisPutIndex(f, pc[p].data, pc[p].i)
       IN IF ~LSetOk(store, key, index)
          THEN /\ rstatus' = [rstatus EXCEPT ![p] = "fatal"]
               /\ pc' = [pc EXCEPT ![p] = Idle]
               /\ last' = [NoCall EXCEPT !.proc = p, !.op = "put", !.failed = TRUE]
               /\ UNCHANGED <<store, xIn>>
          ELSE /\ store' = LSET(store, key, index, SetVal)
               /\ IF pc[p].i + 1 >= f.k
                  THEN /\ pc' = [pc EXCEPT ![p] = Idle]
                       /\ last' = [NoCall EXCEPT !.proc = p, !.op = "put"]
                       /\ xIn' = IF pc[p].data = x THEN xIn \cup {<<key, p>>} ELSE xIn
                  ELSE /\ pc' = [pc EXCEPT ![p].i = @ + 1]
                       /\ UNCHANGED <<last, xIn>>
               /\ UNCHANGED rstatus
    /\ UNCHANGED <<args, disk, status, x, localVars, trio, rf, rargs>>

\* process p calls filter.Has(data); afterPut: it is Has(x) and a Put(x) has
\* returned before
CHasCall(p, data) ==
    /\ rstatus[p] = "ok" /\ pc[p].op = "idle" /\ ~RedisPanics(rf[p]) /\ rf[p].k > 0
    /\ pc' = [pc EXCEPT ![p] = [op |-> "has", data |-> data, i |-> 0,
                                afterPut |-> (data = x /\ xIn # {})]]
    /\ UNCHANGED <<args, disk, store, status, x, localVars, trio, rf, rargs, rstatus, last, xIn>>

\* process p: one round of the loop of Has, one LINDEX
CHasStep(p) ==
    /\ rstatus[p] = "ok" /\ pc[p].op = "has"
    /\ LET f == rf[p]
           key == redisKey(f.n, f.k)
           index == RedisHasIndex(f, pc[p].data, pc[p].i)
           return(ans) == /\ pc' = [pc EXCEPT ![p] = Idle]
                          /\ last' = [NoCall EXCEPT !.proc = p, !.op = "has", !.ans = ans,
                                                    !.afterPut = pc[p].afterPut]
                          /\ UNCHANGED rstatus
       IN IF ~LIndexOk(store, key, index)
          THEN /\ rstatus' = [rstatus EXCEPT ![p] = "fatal"]
               /\ pc' = [pc EXCEPT ![p] = Idle]
               /\ last' = [NoCall EXCEPT !.proc = p, !.op = "has", !.failed = TRUE]
          ELSE IF LINDEX(store, key, index) # SetVal THEN return("false")
          ELSE IF pc[p].i + 1 >= f.k THEN return("true")
          ELSE /\ pc' = [pc EXCEPT ![p].i = @ + 1]
               /\ UNCHANGED <<last, rstatus>>
    /\ UNCHANGED <<args, disk, store, status, x, localVars, trio, rf, rargs, xIn>>

NextConc ==
    \E p \in Procs :
        \/ \E data \in ProbeKeys : CPutCall(p, data)
        \/ CPutStep(p)
        \/ \E data \in ProbeKeys : CHasCall(p, data)
        \/ CHasStep(p)

SpecConc == InitConc /\ [][NextConc]_vars

\* ------------------------------------------------------------ store() step by step
\* One process using a file-backed filter; Close runs store() one system call
\* at a time and the process may stop (kill, power loss, log.Fatalf) between
\* any two steps, after which a new process may open the same path.
\* pc[1].op is the position inside Close: "idle", "created" or "encoded".

\* (mutant of FilePut: the file is rewritten on every Put)
FilePutWriteThrough(f, d, data) ==
    [filter |-> MemoryPut(f, data), disk |-> StoreFile(MemoryPut(f, data))]

\* FileBloomFilter embeds *MemoryBloomFilter: filter.Put is the memory
\* filter's Put and takes no part of the file.
FilePut(f, d, data) == [filter |-> MemoryPut(f, data), disk |-> d]

\* What the file holds once encoder.Encode has returned and before
\* gzipWriter.Close(): the gzip header and as much of the message as the
\* compressor has let through, no trailer.
PartialContents(f) ==
    LET m == GobEncode(f.bs)
    IN {[magic |-> TRUE,
         payload |-> [count |-> m.count, elems |-> SubSeq(m.elems, 1, j)],
         trailer |-> FALSE] : j \in 0..(IF m.count = 0 THEN 0 ELSE m.count - 1)}

InitFlush ==
    /\ kind = "file"
    /\ args \in [n : NVals, k : KVals]
    /\ x \in Keys
    /\ filter = NoFilter
    /\ disk = NoFile
    /\ store = EmptyStore
    /\ status = "ok"
    /\ ret = "none"
    /\ xPut = FALSE
    /\ savedPut = FALSE
    /\ SharedUnused

\* filter := NewFileBloomFilter(target, n, k)
FNew == pc[1].op = "idle" /\ NewFile

\* filter.Put(data)
FPut(data) ==
    /\ status = "ok" /\ filter # NoFilter /\ pc[1].op = "idle"
    /\ IF MemPanics(filter)
       THEN status' = "panic" /\ UNCHANGED <<filter, disk, xPut>>
       ELSE /\ filter' = FilePut(filter, disk, data).filter
            /\ disk' = FilePut(filter, disk, data).disk
            /\ xPut' = (xPut \/ data = x)
            /\ UNCHANGED status
    /\ ret' = "none"
    /\ UNCHANGED <<kind, args, store, x, savedPut, trio, sharedVars>>

\* filter.Has(data)
FHas(data) == pc[1].op = "idle" /\ Has(data)

\* Close -> store(): f, err := os.Create(filter.target) truncates the file
FStoreCreate ==
    /\ status = "ok" /\ filter # NoFilter /\ pc[1].op = "idle"
    /\ disk' = [exists |-> TRUE, content |-> NoContent]
    /\ pc' = [pc EXCEPT ![1].op = "created"]
    /\ ret' = "none"
    /\ UNCHANGED <<kind, args, filter, store, status, x, xPut, savedPut, trio,
                   rf, rargs, rstatus, last, xIn>>

\* store(): encoder.Encode(filter.bs) through the gzip writer
FStoreEncode ==
    /\ status = "ok" /\ pc[1].op = "created"
    /\ \E c \in PartialContents(filter) : disk' = [exists |-> TRUE, content |-> c]
    /\ pc' = [pc EXCEPT ![1].op = "encoded"]
    /\ UNCHANGED <<kind, args, filter, store, status, ret, x, xPut, savedPut, trio,
                   rf, rargs, rstatus, last, xIn>>

\* store() returns: the deferred gzipWriter.Close() and f.Close(); then
\* Close sets filter.bs = nil
FStoreFinish ==
    /\ status = "ok" /\ pc[1].op = "encoded"
    /\ disk' = StoreFile(filter)
    /\ filter' = MemoryClose(filter)
    /\ savedPut' = xPut
    /\ xPut' = FALSE
    /\ pc' = [pc EXCEPT ![1].op = "idle"]
    /\ UNCHANGED <<kind, args, store, status, ret, x, trio, rf, rargs, rstatus, last, xIn>>

\* the process stops; its memory is gone, the file stays as it is
FStop ==
    /\ status = "ok" /\ filter # NoFilter
    /\ filter' = NoFilter
    /\ xPut' = FALSE
    /\ ret' = "none"
    /\ pc' = [pc EXCEPT ![1].op = "idle"]
    /\ UNCHANGED <<kind, args, disk, store, status, x, savedPut, trio,
                   rf, rargs, rstatus, last, xIn>>

NextFlush ==
    \/ FNew
    \/ \E data \in Keys : FPut(data)
    \/ \E data \in Keys : FHas(data)
    \/ FStoreCreate
    \/ FStoreEncode
    \/ FStoreFinish
    \/ FStop

SpecFlush == InitFlush /\ [][NextFlush]_vars

\* ------------------------------------------------------------ BitSets alone
\* A caller of the bit set itself: bs := NewBitSets(n), then Set, Unset and
\* IsSet with any index.  filter.bs is the bit set, args.n its n; last is the
\* last call: its name, its index and the bit set it found.
BitIndexes ==
    (0..(MaxN + 1)) \cup {WordBits - 1, WordBits, WordBits + 1, 2 * WordBits}

NoBitsCall == [op |-> "none", index |-> 0, before |-> <<>>]

InitBits ==
    /\ args \in [n : NVals, k : {0}]
    /\ kind = "bits"
    /\ filter = [kind |-> "bits", k |-> 0, bs |-> NewBitSets(args.n)]
    /\ status = "ok"
    /\ ret = "none"
    /\ last = NoBitsCall
    /\ disk = NoFile /\ store = EmptyStore
    /\ x = ZeroKey /\ xPut = FALSE /\ savedPut = FALSE
    /\ trio = NoTrio
    /\ rf = [p \in Procs |-> NoFilter]
    /\ rargs = [p \in Procs |-> [n |-> 0, k |-> 0]]
    /\ rstatus = [p \in Procs |-> "ok"]
    /\ pc = [p \in Procs |-> Idle]
    /\ xIn = {}

\* bs.Set(index): bs[index/64] is a run-time panic outside the slice
BSet(index) ==
    /\ status = "ok"
    /\ IF WordInRange(filter.bs, index)
       THEN filter' = [filter EXCEPT !.bs = Set(@, index)] /\ UNCHANGED status
       ELSE status' = "panic" /\ UNCHANGED filter
    /\ ret' = "none"
    /\ last' = [op |-> "Set", index |-> index, before |-> filter.bs]
    /\ UNCHANGED <<kind, args, disk, store, x, xPut, savedPut, trio,
                   rf, rargs, rstatus, pc, xIn>>

\* bs.Unset(index)
BUnset(index) ==
    /\ status = "ok"
    /\ IF WordInRange(filter.bs, index)
       THEN filter' = [filter EXCEPT !.bs = Unset(@, index)] /\ UNCHANGED status
       ELSE status' = "panic" /\ UNCHANGED filter
    /\ ret' = "none"
    /\ last' = [op |-> "Unset", index |-> index, before |-> filter.bs]
    /\ UNCHANGED <<kind, args, disk, store, x, xPut, savedPut, trio,
                   rf, rargs, rstatus, pc, xIn>>

\* bs.IsSet(index)
BIsSet(index) ==
    /\ status = "ok"
    /\ IF WordInRange(filter.bs, index)
       THEN /\ ret' = IF IsSet(filter.bs, index) THEN "true" ELSE "false"
            /\ UNCHANGED status
       ELSE status' = "panic" /\ ret' = "none"
    /\ last' = [op |-> "IsSet", index |-> index, before |-> filter.bs]
    /\ UNCHANGED <<kind, args, filter, disk, store, x, xPut, savedPut, trio,
                   rf, rargs, rstatus, pc, xIn>>

NextBits ==
    \E index \in BitIndexes :
        \/ BSet(index)
        \/ BUnset(index)
        \/ BIsSet(index)

SpecBits == InitBits /\ [][NextBits]_vars

\* ------------------------------------------------------------ concurrent construction
\* Two processes with the same (n, k) run NewRedisBloomFilter command by
\* command on a server that has no list yet; a process that has its filter
\* calls Put and Has.  pc[p].op is the command the constructor of p issues
\* next ("del", "lpush"), pc[p].i the length its LLEN read.

\* NewRedisBloomFilter: LLEN and the test uint(length) != n
NLlen(p) ==
    /\ rstatus[p] = "ok" /\ rf[p] = NoFilter /\ pc[p].op = "idle"
    /\ LET a == rargs[p]
           length == LLEN(store, redisKey(a.n, a.k))
       IN IF length # a.n
          THEN /\ pc' = [pc EXCEPT ![p] = [Idle EXCEPT !.op = "del", !.i = length]]
               /\ UNCHANGED <<rf, last>>
          ELSE /\ rf' = [rf EXCEPT ![p] = NewRedisBloomFilter(a.n, a.k)]
               /\ last' = [NoCall EXCEPT !.proc = p, !.op = "new", !.length = length]
               /\ UNCHANGED pc
    /\ UNCHANGED <<args, disk, store, status, x, localVars, trio, rargs, rstatus, xIn>>

\* NewRedisBloomFilter: cli.Do("DEL", filter.redisKey())
NDel(p) ==
    /\ rstatus[p] = "ok" /\ pc[p].op = "del"
    /\ store' = DEL(store, redisKey(rargs[p].n, rargs[p].k))
    /\ pc' = [pc EXCEPT ![p].op = "lpush"]
    /\ UNCHANGED <<args, disk, status, x, localVars, trio, rf, rargs, rstatus, last, xIn>>

\* NewRedisBloomFilter: cli.Do("LPUSH", pushArgs...); return filter
NLpush(p) ==
    /\ rstatus[p] = "ok" /\ pc[p].op = "lpush"
    /\ LET a == rargs[p]
       IN /\ store' = LPUSH(store, redisKey(a.n, a.k), [i \in 1..a.n |-> UnsetVal])
          /\ rf' = [rf EXCEPT ![p] = NewRedisBloomFilter(a.n, a.k)]
          /\ last' = [NoCall EXCEPT !.proc = p, !.op = "new", !.length = pc[p].i]
    /\ pc' = [pc EXCEPT ![p] = Idle]
    /\ UNCHANGED <<args, disk, status, x, localVars, trio, rargs, rstatus, xIn>>

NextRace ==
    \E p \in Procs :
        \/ NLlen(p)
        \/ NDel(p)
        \/ NLpush(p)
        \/ \E data \in ProbeKeys : RPut(p, data, -1)
        \/ \E data \in ProbeKeys : RHas(p, data, -1)

SpecRace == InitFail /\ [][NextRace]_vars

\* ------------------------------------------------------------ properties
\* A constructed filter that has not been closed (nor loaded an empty array).
Live(f) ==
    /\ f # NoFilter
    /\ IF f.kind = "redis" THEN f.cli ELSE Len(f.bs) > 0

\* The bit positions Put(data) and Has(data) address on filter f.
AddressedByPut(f, data) ==
    IF f.kind = "redis"
    THEN {RedisPutIndex(f, data, i) : i \in 0..(f.k - 1)}
    ELSE {MemPutIndex(f.bs, data, i) : i \in 0..(f.k - 1)}

AddressedByHas(f, data) ==
    IF f.kind = "redis"
    THEN {RedisHasIndex(f, data, i) : i \in 0..(f.k - 1)}
    ELSE {MemHasIndex(f.bs, data, i) : i \in 0..(f.k - 1)}

\* C1: no false negatives.  On every backend, once Put(x) has returned on a
\* filter (or on the file filter whose Close wrote the file this filter was
\* loaded from, with the same n and k), Has(x) on it returns true.
C1_NoFalseNegatives ==
    xPut => HasOutcome(filter, store, x) = "true"

\* C1 witness: a file filter reopened from the file a filter holding x was
\* closed into, with n >= 1 and k >= 1, on which Has returned true.
C1_Witness ==
    /\ kind = "file" /\ args.n >= 1 /\ args.k >= 1
    /\ disk.exists /\ savedPut /\ xPut
    /\ filter.bs = GobDecode(disk.content.payload)
    /\ ret = "true"

\* C2: durability round trip.  Whenever Close writes the file, the filter
\* NewFileBloomFilter builds from that file with the same (n, k) holds the
\* bit array the closed filter held and answers Has like it for every key.
C2_DurabilityRoundTrip ==
    [][(kind = "file" /\ disk' # disk) =>
          /\ ~ReStoreFatal(disk')
          /\ NewFileBloomFilter(disk', args.n, args.k).bs = filter.bs
          /\ \A data \in Keys :
                HasOutcome(NewFileBloomFilter(disk', args.n, args.k), store, data)
                    = HasOutcome(filter, store, data)]_vars

\* C2 witness: a filter loaded from a stored file with a bit set, where x is
\* reported present and some other key absent.
C2_Witness ==
    /\ kind = "file" /\ disk.exists /\ xPut /\ filter.kind = "file"
    /\ filter.bs = GobDecode(disk.content.payload)
    /\ \E w \in 1..Len(filter.bs) : filter.bs[w] # {}
    /\ HasOutcome(filter, store, x) = "true"
    /\ ret = "none"

\* C4: index derivation.  On every backend Put(key) and Has(key) address
\* exactly the positions HashData(key, i) mod n, i = 0..k-1.
C4_IndexDerivation ==
    (Live(filter) /\ args.n >= 1 /\ ret # "none")
        => \A data \in Keys :
              /\ AddressedByPut(filter, data)
                    = {HashData(data, i) % args.n : i \in 0..(args.k - 1)}
              /\ AddressedByHas(filter, data)
                    = {HashData(data, i) % args.n : i \in 0..(args.k - 1)}

\* C5: configuration errors are rejected at construction: no filter built
\* with n = 0 or k = 0 ever serves a Has.
C5_ConfigRejected ==
    ret \in {"true", "false"} => (args.n >= 1 /\ args.k >= 1)

\* C3: backend equivalence.  With the same (n, k), n >= 1 and k >= 1, and
\* the same Puts, the memory, file and Redis filters give the same answer
\* to every Has.
C3_BackendEquivalence ==
    (args.n >= 1 /\ args.k >= 1) =>
        /\ trio.answers.m = trio.answers.f
        /\ trio.answers.f = trio.answers.r

\* The list of process p's filter, and whether it is n unset elements.
KeyOf(p) == redisKey(rargs[p].n, rargs[p].k)

FreshList(s, p) ==
    /\ KeyOf(p) \in DOMAIN s
    /\ Len(s[KeyOf(p)]) = rargs[p].n
    /\ \A i \in 1..Len(s[KeyOf(p)]) : s[KeyOf(p)][i] # SetVal

\* C6: remote reinitialisation.  When NewRedisBloomFilter finds a list
\* length other than n (an absent list included), then at its return, before
\* the filter issues any other command, the list has exactly n elements and
\* none is "1".
C6_RemoteReinit ==
    [][(last'.op = "new" /\ last'.length # rargs[last'.proc].n)
          => FreshList(store', last'.proc)]_vars

\* C6 witness: a constructor that found a list of length 2n has returned and
\* the list is n unset elements.
C6_Witness ==
    /\ last.op = "new"
    /\ last.length = 2 * rargs[last.proc].n
    /\ store[KeyOf(last.proc)] = Unsets(rargs[last.proc].n)

\* C7: remote errors are fatal to the call.  A construction, Put or Has one
\* of whose commands failed does not return normally: the process ends.
C7_RemoteErrorsFatal ==
    last.failed => rstatus[last.proc] = "fatal"

\* C9: remote state is keyed by (n, k) alone.  A constructor that finds the
\* list at length n changes nothing; a key Put through one filter is present
\* for every open filter with the same (n, k); and no call through a filter
\* changes a Has answer of a filter with another (n, k).
C9_KeyedByNK ==
    /\ [](\A p, q \in Procs :
            (Live(rf[p]) /\ <<KeyOf(p), q>> \in xIn)
                => HasOutcome(rf[p], store, x) = "true")
    /\ [][/\ (last'.op = "new" /\ last'.length = rargs[last'.proc].n)
              => store' = store
          /\ \A q \in Procs :
                (q # last'.proc /\ rf[q] # NoFilter /\ rargs[q] # rargs[last'.proc])
                    => \A data \in Keys :
                          HasOutcome(rf[q], store', data) = HasOutcome(rf[q], store, data)]_vars

\* C9 witness: two open filters with the same (n, k); x was Put through
\* process 1 only and Has(x) through process 2 returned true, on a list that
\* still has an unset element.
C9_Witness ==
    /\ rargs[1] = rargs[2] /\ Live(rf[1]) /\ Live(rf[2])
    /\ xIn = {<<KeyOf(1), 1>>}
    /\ last.proc = 2 /\ last.op = "has" /\ last.ans = "true"
    /\ \E i \in 1..Len(store[KeyOf(1)]) : store[KeyOf(1)][i] = UnsetVal

\* C10: Close leaves the server alone, and a filter constructed afterwards
\* with the same (n, k) reports every key Put before as present.
C10_CloseKeepsList ==
    /\ [][last'.op = "close" => store' = store]_vars
    /\ [](\A q \in Procs :
            (last.op = "new" /\ <<KeyOf(last.proc), q>> \in xIn)
                => HasOutcome(rf[last.proc], store, x) = "true")

\* C10 witness: process 1 Put x and closed its filter; process 2, which
\* never Put x, has then constructed a filter with the same (n, k) and found
\* the list in place.
C10_Witness ==
    /\ rargs[1] = rargs[2]
    /\ rf[1] # NoFilter /\ ~rf[1].cli
    /\ xIn = {<<KeyOf(1), 1>>}
    /\ last.proc = 2 /\ last.op = "new" /\ last.length = rargs[2].n
    /\ HasOutcome(rf[2], store, x) = "true"
    /\ \E i \in 1..Len(store[KeyOf(1)]) : store[KeyOf(1)][i] = UnsetVal

\* C8: concurrent writers are safe after construction.  Under every
\* interleaving of the LSET and LINDEX commands of concurrent Puts and Has, no
\* list element goes from "1" to another value, and a Has(x) called after a
\* Put(x) has returned, in any process, returns true.
C8_ConcurrentWritersSafe ==
    /\ [][\A key \in DOMAIN store : \A i \in 1..Len(store[key]) :
             store[key][i] = SetVal =>
                 /\ key \in DOMAIN store'
                 /\ i <= Len(store'[key])
                 /\ store'[key][i] = SetVal]_vars
    /\ []((last.op = "has" /\ last.afterPut) => last.ans = "true")

\* C8 witness: Has(x) of process 2, called after Put(x) of process 1
\* returned, has returned true while process 1 is inside another Put and the
\* list still has an unset element.
C8_Witness ==
    /\ xIn = {<<KeyOf(1), 1>>}
    /\ last.proc = 2 /\ last.op = "has" /\ last.afterPut /\ last.ans = "true"
    /\ pc[1].op = "put" /\ pc[1].data # x
    /\ \E i \in 1..Len(store[KeyOf(1)]) : store[KeyOf(1)][i] = UnsetVal

\* C11: the flush is atomic.  During and after Close, the process stopping
\* at any step of store() included, the file at the target path is never
\* empty or partially written: whenever it exists, NewFileBloomFilter can
\* read a complete bit array from it.
C11_AtomicFlush ==
    disk.exists => ~ReStoreFatal(disk)

\* C16: persistence happens only at construction and close.  On a
\* file-backed filter the content of the file changes only inside Close: no
\* Put, Has or construction changes it, so a process that stops before Close
\* leaves the file as it was when the filter was constructed.
C16_PersistenceOnlyAtClose ==
    [][disk' # disk => (pc[1].op # "idle" \/ pc'[1].op # "idle")]_vars

\* C16 witness: a filter loaded from an existing file has served Put(x) and a
\* Has that returned true; its bit array now differs from the one in the
\* file, which no one is writing.
C16_Witness ==
    /\ kind = "file" /\ pc[1].op = "idle"
    /\ disk.exists /\ ~ReStoreFatal(disk)
    /\ Live(filter) /\ xPut /\ ret = "true"
    /\ filter.bs # GobDecode(disk.content.payload)

\* A filter on which Put and Has run to their end: constructed, not closed,
\* no division by zero, and on Redis the list in place with its n elements.
Serving(f, s) ==
    /\ Live(f)
    /\ IF f.kind = "redis"
       THEN ~RedisPanics(f) /\ LLEN(s, redisKey(f.n, f.k)) = f.n
       ELSE ~MemPanics(f)

\* The set positions of the storage of filter f: <<word, bit>> pairs of the
\* bit set, or the indexes of the list elements holding "1".
StorageBits(f, s) ==
    IF f.kind = "redis"
    THEN IF redisKey(f.n, f.k) \in DOMAIN s
         THEN {i \in 0..(Len(s[redisKey(f.n, f.k)]) - 1) :
                  LINDEX(s, redisKey(f.n, f.k), i) = SetVal}
         ELSE {}
    ELSE UNION {{<<w, b>> : b \in f.bs[w]} : w \in 1..Len(f.bs)}

StorageSize(f, s) ==
    IF f.kind = "redis" THEN LLEN(s, redisKey(f.n, f.k)) ELSE Len(f.bs)

\* C12: bits are monotone.  On every backend a Put, of any key, keeps every
\* set bit set and the storage at its size (it only turns unset bits into set
\* ones), and a Has changes neither the filter nor the store.
C12_BitsMonotone ==
    /\ [](Serving(filter, store) =>
            \A data \in Keys :
               LET after == PutOutcome(filter, store, data)
               IN /\ StorageBits(filter, store) \subseteq StorageBits(after.filter, after.store)
                  /\ StorageSize(after.filter, after.store) = StorageSize(filter, store))
    /\ [][ret' # "none" => (filter' = filter /\ store' = store /\ disk' = disk)]_vars

\* C12 witness: after Puts that set two different bits, one of them of x, a
\* Has has returned true.
C12_Witness ==
    /\ Serving(filter, store) /\ xPut /\ ret = "true"
    /\ Cardinality(StorageBits(filter, store)) >= 2

\* C13: Put is idempotent.  On every backend, in every reachable filter
\* state and for every key, Put(key); Put(key) leaves the storage a single
\* Put(key) leaves.
C13_PutIdempotent ==
    Serving(filter, store) =>
        \A data \in Keys :
           LET once == PutOutcome(filter, store, data)
               twice == PutOutcome(once.filter, once.store, data)
           IN once.ok /\ twice = once

\* C13 witness: a Redis filter with k = MaxK on which Put(x) has returned,
\* the list still holding an unset element: Put(x) again changes nothing.
C13_Witness ==
    /\ kind = "redis" /\ Serving(filter, store) /\ xPut /\ args.k = MaxK
    /\ PutOutcome(filter, store, x).store = store
    /\ StorageBits(filter, store) # {}
    /\ Cardinality(StorageBits(filter, store)) < StorageSize(filter, store)

\* The k positions Has derives for data on filter f, in order, and whether a
\* position is set.
HasPositions(f, data) ==
    [j \in 1..f.k |-> IF f.kind = "redis" THEN RedisHasIndex(f, data, j - 1)
                      ELSE MemHasIndex(f.bs, data, j - 1)]

PositionSet(f, s, index) ==
    IF f.kind = "redis" THEN LINDEX(s, redisKey(f.n, f.k), index) = SetVal
    ELSE IsSet(f.bs, index)

\* C14: Has(key) returns true iff all k positions it derives for key are
\* set, and it tests them in order up to the first unset one and no further
\* (on Redis: it issues no further LINDEX).
C14_HasIffAllSet ==
    Serving(filter, store) =>
        \A data \in Keys :
           LET ps == HasPositions(filter, data)
               unset == {j \in 1..filter.k : ~PositionSet(filter, store, ps[j])}
               first == CHOOSE j \in unset : \A j2 \in unset : j <= j2
           IN /\ HasOutcome(filter, store, data) = (IF unset = {} THEN "true" ELSE "false")
              /\ HasReads(filter, store, data)
                    = (IF unset = {} THEN ps ELSE SubSeq(ps, 1, first))

\* C14 witness: a Has has returned false, and for some key the first derived
\* position is unset while the second is set: Has tests one position only.
C14_Witness ==
    /\ Serving(filter, store) /\ filter.k = 2 /\ ret = "false"
    /\ \E data \in Keys :
          /\ ~PositionSet(filter, store, HasPositions(filter, data)[1])
          /\ PositionSet(filter, store, HasPositions(filter, data)[2])
          /\ HasOutcome(filter, store, data) = "false"
          /\ Len(HasReads(filter, store, data)) = 1

\* C15: bounds violations fail loudly.  On a bit set made by NewBitSets(n),
\* a Set, Unset or IsSet with an index outside [0, n) faults and neither
\* reads nor changes a stored bit.
C15_BoundsFailLoudly ==
    (last.op \in {"Set", "Unset", "IsSet"} /\ last.index \notin 0..(args.n - 1))
        => (status = "panic" /\ filter.bs = last.before)

\* C19: Unset works as a clear.  After Unset(i) with i in [0, n), IsSet(i) is
\* false whatever the bit was before, and IsSet(j) is what it was for every
\* other j.
C19_UnsetClears ==
    (last.op = "Unset" /\ last.index \in 0..(args.n - 1)) =>
        /\ status = "ok"
        /\ ~IsSet(filter.bs, last.index)
        /\ \A j \in BitIndexes \ {last.index} :
              WordInRange(filter.bs, j) => (IsSet(filter.bs, j) = IsSet(last.before, j))

\* C20: closing a file-backed filter more than once does not damage the
\* persisted state.  A Close on a filter already closed leaves the file as the
\* first Close wrote it, and a filter reopened on any file a Close has left
\* serves Put and Has without faulting.
C20_DoubleCloseKeepsFile ==
    /\ [][(filter # NoFilter /\ filter.kind = "file" /\ ~Live(filter) /\ disk.exists)
             => disk' = disk]_vars
    /\ []((kind = "file" /\ disk.exists /\ ~ReStoreFatal(disk) /\ args.k > 0)
             => ~MemPanics(NewFileBloomFilter(disk, args.n, args.k)))

\* C18: construction race on the shared list.  A constructor that read a
\* length other than n runs DEL then LPUSH whatever has happened since: right
\* after its DEL every Put and Has of the other process fails, and right
\* after its LPUSH a key x whose Put had returned is reported absent by Has(x).
\* (That such an interleaving exists is what the witness shows.)
C18_ConstructionRace ==
    /\ [][\A p \in Procs :
             (pc[p].op = "del" /\ pc'[p].op = "lpush") =>
                 \A q \in Procs :
                    Live(rf[q]) =>
                       /\ ~PutOutcome(rf[q], store', x).ok
                       /\ HasOutcome(rf[q], store', x) = "fatal"]_vars
    /\ [][\A p \in Procs :
             (pc[p].op = "lpush" /\ pc'[p].op = "idle" /\ xIn # {}) =>
                 \A q \in Procs :
                    Live(rf'[q]) => HasOutcome(rf'[q], store', x) = "false"]_vars

\* C18 witness: both processes read a length other than n (the server had no
\* list, and the list process 2 found at its DEL/LPUSH was the one process 1
\* had pushed); Put(x) of process 1 returned, then process 2 ran its LPUSH,
\* and a Has of process 1 has returned false, as Has(x) does.
C18_Witness ==
    /\ xIn = {<<KeyOf(1), 1>>}
    /\ Live(rf[1]) /\ Live(rf[2])
    /\ pc[1].op = "idle" /\ pc[2].op = "idle"
    /\ last.proc = 1 /\ last.op = "has" /\ last.ans = "false"
    /\ HasOutcome(rf[1], store, x) = "false"

====
